---- MODULE Spec2Model ----
(***************************************************************************)
(* State-machine model of the refrigerator-diagnosis client:               *)
(*   - the upload/processing page `Home` (processS3Video and its NDJSON    *)
(*     read loop, handleVideoUploaded, the "Start Diagnosis" button),      *)
(*   - the persisted data model of supabase-schema.sql.                    *)
(* One JavaScript task (the code between two awaits) is atomic; the read   *)
(* loop's `for (const line of lines)` is unrolled into one step per line,  *)
(* during which no other task can run (pc = "lines").                      *)
(***************************************************************************)
EXTENDS Integers, Sequences, FiniteSets, TLC

\* ------------------------------------------------------------ bounds
\* Most lines of a response body when one run is explored (SpecStream).
MaxRecords == 2
\* Most lines of a response body when several runs are explored (Spec).
MaxShortRecords == 1
\* Most invocations of processS3Video explored (Spec).
MaxRuns == 2
\* Most rows ever inserted into refrigerator_diagnoses (SpecDB).
MaxDiagnoses == 2
\* Latest value of NOW() explored (SpecChat).
MaxClock == 2
\* Most DELETE requests one mounted detail page sends (SpecDetail).
MaxDeletes == 2

\* ------------------------------------------------------------ values
NULL == "null"
NL == "\n"

InitMessage == "Initializing analysis..."
CompleteMessage == "Analysis complete! Redirecting..."
NotOkMessage == "Failed to process S3 video"
NoReaderMessage == "Failed to read response stream"
\* message of the TypeError a rejected fetch() or reader.read() carries
NetworkMessage == "Failed to fetch"

HomeRoute == "/"
\* <Link href="/history"> in the header of Home
HistoryListRoute == "/history"
HistoryRoute(diagnosisId) == "/history/" \o diagnosisId

S3Keys == {"uploads/key1"}
FileNames == {"fridge1.mp4"}

\* ------------------------------------------------------------ NDJSON text
\* A response body is a sequence of characters. The text of one JSON object
\* is three characters long: "{", a body token standing for the members of
\* the object, "}". Any proper fragment of it is not JSON.
Bodies == {"p20", "p60", "p150", "cd1", "cd2", "em1"}

\* JSON.parse of a well-formed object text, by body token.
JSONValue(b) ==
    CASE b = "p20" -> [type |-> "progress", progress |-> 20, message |-> "Analyzing"]
      [] b = "p60" -> [type |-> "progress", progress |-> 60, message |-> "Finalizing"]
      [] b = "p150" -> [type |-> "progress", progress |-> 150, message |-> "Finalizing"]
      [] b = "cd1" -> [type |-> "complete", diagnosisId |-> "d1"]
      [] b = "cd2" -> [type |-> "complete", diagnosisId |-> "d2"]
      [] b = "em1" -> [type |-> "error", message |-> "model unavailable"]

\* The texts a backend line may hold: a JSON record, or text that is no JSON.
LineTexts == {<<"{", b, "}">> : b \in Bodies} \cup {<<"x">>}

RECURSIVE TerminatedStreams(_)
TerminatedStreams(n) ==
    IF n = 0 THEN {<<>>}
    ELSE LET S == TerminatedStreams(n - 1)
         IN  S \cup {s \o l \o <<NL>> : s \in S, l \in LineTexts}

\* Bodies of at most n lines; the last line may lack its newline.
Streams(n) ==
    TerminatedStreams(n)
        \cup {s \o l : s \in TerminatedStreams(n - 1), l \in LineTexts}

\* chunk.split('\n'): always at least one element, "" after a trailing newline.
RECURSIVE Split(_)
Split(chunk) ==
    IF \A i \in 1..Len(chunk) : chunk[i] # NL THEN <<chunk>>
    ELSE LET k == CHOOSE i \in 1..Len(chunk) :
                      chunk[i] = NL /\ \A j \in 1..(i - 1) : chunk[j] # NL
         IN  <<SubSeq(chunk, 1, k - 1)>> \o Split(SubSeq(chunk, k + 1, Len(chunk)))

Whitespace == {" ", "\t", "\r", NL}

\* line.trim() is the empty string
IsBlank(line) == \A i \in 1..Len(line) : line[i] \in Whitespace

\* JSON.parse(line) returns (does not throw a SyntaxError)
Parses(line) ==
    /\ Len(line) = 3
    /\ line[1] = "{"
    /\ line[3] = "}"
    /\ line[2] \in Bodies

JSONParse(line) == JSONValue(line[2])

\* ------------------------------------------------------------ state
VARIABLES
    s3Key, fileName, isProcessing, progress, progressMessage, error,  \* useState of Home
    route,      \* the router's current route
    timers,     \* pending setTimeout callbacks, as the routes they will push
    pc,         \* position of processS3Video: idle, fetch, read, lines
    stream,     \* the response body of the run
    pos,        \* characters of the body already delivered by reader.read()
    lines,      \* lines of the current chunk not yet visited by the for loop
    inflight,   \* invocations of processS3Video that have not returned
    runs,       \* invocations of processS3Video so far that sent a request
    calls,      \* history: invocations of processS3Video so far
    requestBody, \* history: the body of the last request sent
    handled,    \* history: the records the loop dispatched on, this run
    scheduled,  \* history: the routes this run passed to setTimeout
    exit,       \* history: how the last run left the try block
    reported,   \* history: highest percentage onProgress got for this upload
    id,         \* HistoryDetailPage: the route parameter, NULL while unmounted
    diagnosis, loading, detailError,   \* useState of HistoryDetailPage
    detailPc,   \* position of fetchDiagnosis: unmounted, effect, fetch, done
    response,   \* history: the answer the list request got
    isDeleting, \* useState of HistoryDetailPage
    deletePc,   \* position of handleDeleteDiagnosis: idle, request
    deleteInflight, \* invocations of handleDeleteDiagnosis awaiting apiRequest
    deleteSent, \* history: DELETE requests sent so far
    dialog,     \* history: the last answer to window.confirm
    alerts,     \* history: calls of alert() so far
    apiCall,    \* history: the last response apiRequest got and what it did
    refrigerator_diagnoses,     \* rows of the table
    refrigerator_diagnoses_seq, \* last value of the SERIAL sequence of its id
    chat_conversations,         \* rows of the table
    chat_messages,              \* rows of the table
    now,                        \* the database clock, NOW()
    db_result                   \* history: the last statement and how it ended

pageVars == <<s3Key, fileName, isProcessing, progress, progressMessage, error,
              route, timers, pc, stream, pos, lines, inflight, runs,
              calls, requestBody, handled, scheduled, exit, reported>>
deleteVars == <<isDeleting, deletePc, deleteInflight, deleteSent, dialog,
                alerts, apiCall>>
detailVars == <<id, diagnosis, loading, detailError, detailPc, response,
                deleteVars>>
dbVars == <<refrigerator_diagnoses, refrigerator_diagnoses_seq,
            chat_conversations, chat_messages, now, db_result>>
vars == <<pageVars, dbVars, detailVars>>

homeState == <<s3Key, fileName, isProcessing, progress, progressMessage, error>>
runState == <<pc, stream, pos, lines, inflight, runs, calls, requestBody,
              handled, scheduled, exit>>

\* the tables as the schema creates them: empty
InitDB ==
    /\ refrigerator_diagnoses = {}
    /\ refrigerator_diagnoses_seq = 0
    /\ chat_conversations = {}
    /\ chat_messages = {}
    /\ now = 0
    /\ db_result = [stmt |-> "none", status |-> "ok"]

\* no request has been sent
NoRequest == [s3Key |-> NULL, fileName |-> NULL]

\* the page as mounted: the useState initial values
InitPage ==
    /\ s3Key = NULL
    /\ fileName = NULL
    /\ isProcessing = FALSE
    /\ progress = 0
    /\ progressMessage = ""
    /\ error = NULL
    /\ route = HomeRoute
    /\ timers = <<>>
    /\ pc = "idle"
    /\ stream = <<>>
    /\ pos = 0
    /\ lines = <<>>
    /\ inflight = 0
    /\ runs = 0
    /\ calls = 0
    /\ requestBody = NoRequest
    /\ handled = <<>>
    /\ scheduled = <<>>
    /\ exit = "none"
    /\ reported = 0

\* useState<RefrigeratorDiagnosis | null>(null), and the undefined of find
NoDiagnosis == [id |-> NULL, fileName |-> NULL]

\* no detail page is mounted
InitDetail ==
    /\ id = NULL
    /\ diagnosis = NoDiagnosis
    /\ loading = TRUE
    /\ detailError = NULL
    /\ detailPc = "unmounted"
    /\ response = [kind |-> "none"]
    /\ isDeleting = FALSE
    /\ deletePc = "idle"
    /\ deleteInflight = 0
    /\ deleteSent = 0
    /\ dialog = "none"
    /\ alerts = 0
    /\ apiCall = [kind |-> "none"]

Init == InitPage /\ InitDB /\ InitDetail

\* ------------------------------------------------------------ Home
\* handleVideoUploaded(uploadedS3Key, uploadedFileName), called by the upload
\* component when a transfer ends, with arguments from the given sets
Uploaded(keys, names) ==
    /\ pc # "lines"
    /\ route = HomeRoute
    /\ \E k \in keys, f \in names :
          /\ s3Key' = k
          /\ fileName' = f
    /\ error' = NULL
    /\ reported' = 0
    /\ UNCHANGED <<isProcessing, progress, progressMessage, route, timers>>
    /\ UNCHANGED <<runState, dbVars, detailVars>>

VideoUploaded == Uploaded(S3Keys, FileNames)

\* JavaScript truthiness of a string | null
Truthy(v) == v # NULL /\ v # ""

\* Mutant of ButtonRendered: the button stays rendered while a run is in flight.
ButtonRenderedWhileProcessing == Truthy(s3Key)

\* {s3Key && !isProcessing && (<Button onClick={processS3Video}>)}
ButtonRendered == Truthy(s3Key) /\ ~isProcessing

\* Mutant of ProcessS3Video: the guard on s3Key and fileName is missing.
ProcessS3VideoUnguarded(limit) ==
    /\ pc # "lines"
    /\ route = HomeRoute
    /\ ButtonRendered
    /\ calls < limit
    /\ calls' = calls + 1
    /\ isProcessing' = TRUE
    /\ progress' = 0
    /\ error' = NULL
    /\ progressMessage' = InitMessage
    /\ pc' = "fetch"
    /\ stream' = <<>>
    /\ pos' = 0
    /\ lines' = <<>>
    /\ inflight' = inflight + 1
    /\ runs' = runs + 1
    /\ requestBody' = [s3Key |-> s3Key, fileName |-> fileName]
    /\ handled' = <<>>
    /\ scheduled' = <<>>
    /\ exit' = "none"
    /\ UNCHANGED <<s3Key, fileName, route, timers, dbVars, detailVars, reported>>

\* processS3Video up to its first await (the fetch), on a click of the button;
\* at most `limit` invocations are explored
ProcessS3Video(limit) ==
    /\ pc # "lines"
    /\ route = HomeRoute
    /\ ButtonRendered
    /\ calls < limit
    /\ calls' = calls + 1
    /\ IF ~Truthy(s3Key) \/ ~Truthy(fileName)
       THEN UNCHANGED <<homeState, route, timers, pc, stream, pos, lines,
                        inflight, runs, requestBody, handled, scheduled, exit,
                        dbVars, detailVars, reported>>
       ELSE /\ isProcessing' = TRUE
            /\ progress' = 0
            /\ error' = NULL
            /\ progressMessage' = InitMessage
            /\ pc' = "fetch"
            /\ stream' = <<>>
            /\ pos' = 0
            /\ lines' = <<>>
            /\ inflight' = inflight + 1
            /\ runs' = runs + 1
            /\ requestBody' = [s3Key |-> s3Key, fileName |-> fileName]
            /\ handled' = <<>>
            /\ scheduled' = <<>>
            /\ exit' = "none"
            /\ UNCHANGED <<s3Key, fileName, route, timers,
                           dbVars, detailVars, reported>>

\* Mutant of Catch: the catch block forgets setError.
CatchWithoutSetError(msg) ==
    /\ error' = error
    /\ progress' = 0
    /\ progressMessage' = ""
    /\ isProcessing' = FALSE
    /\ pc' = "idle"
    /\ inflight' = inflight - 1
    /\ exit' = "catch"
    /\ UNCHANGED <<s3Key, fileName, route, timers, stream, pos, lines, runs,
                   calls, requestBody,
                   handled, scheduled, dbVars, detailVars, reported>>

\* Mutant of Catch: the catch block sends the request again by itself.
CatchAndRetry(msg) ==
    /\ error' = msg
    /\ progress' = 0
    /\ progressMessage' = ""
    /\ isProcessing' = TRUE
    /\ pc' = "fetch"
    /\ runs' = runs + 1
    /\ exit' = "catch"
    /\ UNCHANGED <<s3Key, fileName, route, timers, stream, pos, lines, inflight,
                   calls, requestBody, handled, scheduled, dbVars, detailVars,
                   reported>>

\* Mutant of Catch: the catch block leaves progress and its message alone.
CatchKeepsProgress(msg) ==
    /\ error' = msg
    /\ isProcessing' = FALSE
    /\ pc' = "idle"
    /\ inflight' = inflight - 1
    /\ exit' = "catch"
    /\ UNCHANGED <<s3Key, fileName, progress, progressMessage, route, timers,
                   stream, pos, lines, runs, calls, requestBody, handled,
                   scheduled, dbVars, detailVars, reported>>

\* catch (error) { setError(...); setProgress(0); setProgressMessage("") }
\* finally { setIsProcessing(false) }
Catch(msg) ==
    /\ error' = msg
    /\ progress' = 0
    /\ progressMessage' = ""
    /\ isProcessing' = FALSE
    /\ pc' = "idle"
    /\ inflight' = inflight - 1
    /\ exit' = "catch"
    /\ UNCHANGED <<s3Key, fileName, route, timers, stream, pos, lines, runs,
                   calls, requestBody,
                   handled, scheduled, dbVars, detailVars, reported>>

\* fetch() rejects: no connection
FetchRejects ==
    /\ pc = "fetch"
    /\ Catch(NetworkMessage)

\* if (!response.ok) throw new Error('Failed to process S3 video')
FetchNotOk ==
    /\ pc = "fetch"
    /\ Catch(NotOkMessage)

\* if (!reader) throw new Error('Failed to read response stream')
FetchNoBody ==
    /\ pc = "fetch"
    /\ Catch(NoReaderMessage)

\* a success response with a body of at most n lines: the loop is entered
Response(n) ==
    /\ pc = "fetch"
    /\ \E st \in Streams(n) : stream' = st
    /\ pos' = 0
    /\ pc' = "read"
    /\ UNCHANGED <<homeState, route, timers, lines, inflight, runs, calls,
                   requestBody, handled,
                   scheduled, exit, dbVars, detailVars, reported>>

\* const { done, value } = await reader.read(), done = false:
\* the transport delivers the next n characters as one chunk
ReadChunk ==
    /\ pc = "read"
    /\ pos < Len(stream)
    /\ \E n \in 1..(Len(stream) - pos) :
          /\ lines' = Split(SubSeq(stream, pos + 1, pos + n))
          /\ pos' = pos + n
    /\ pc' = "lines"
    /\ UNCHANGED <<homeState, route, timers, stream, inflight, runs, calls,
                   requestBody, handled,
                   scheduled, exit, dbVars, detailVars, reported>>

\* Mutant of ReadDone: there is no finally block.
ReadDoneNoFinally ==
    /\ pc = "read"
    /\ pos = Len(stream)
    /\ pc' = "idle"
    /\ inflight' = inflight - 1
    /\ exit' = "break"
    /\ UNCHANGED <<homeState, route, timers, stream, pos, lines, runs, calls,
                   requestBody, handled, scheduled, dbVars, detailVars,
                   reported>>

\* Mutant of ReadDone: the end of the stream resets the progress display.
ReadDoneResets ==
    /\ pc = "read"
    /\ pos = Len(stream)
    /\ isProcessing' = FALSE
    /\ progress' = 0
    /\ progressMessage' = ""
    /\ pc' = "idle"
    /\ inflight' = inflight - 1
    /\ exit' = "break"
    /\ UNCHANGED <<s3Key, fileName, error, route, timers, stream, pos, lines,
                   runs, calls, requestBody, handled, scheduled, dbVars,
                   detailVars, reported>>

\* done = true: break, then finally { setIsProcessing(false) }
ReadDone ==
    /\ pc = "read"
    /\ pos = Len(stream)
    /\ isProcessing' = FALSE
    /\ pc' = "idle"
    /\ inflight' = inflight - 1
    /\ exit' = "break"
    /\ UNCHANGED <<s3Key, fileName, progress, progressMessage, error, route,
                   timers, stream, pos, lines, runs, calls, requestBody,
                   handled, scheduled,
                   dbVars, detailVars, reported>>

\* reader.read() rejects: the connection drops before the body ends
ReadRejects ==
    /\ pc = "read"
    /\ pos < Len(stream)
    /\ Catch(NetworkMessage)

\* the for loop moves to the next line, or back to reader.read()
NextLine ==
    /\ lines' = Tail(lines)
    /\ pc' = IF Tail(lines) = <<>> THEN "read" ELSE "lines"
    /\ UNCHANGED <<s3Key, fileName, isProcessing, route, stream, pos, inflight,
                   runs, calls, requestBody, exit, dbVars, detailVars, reported>>

\* Mutant of SkipLine: there is no inner try, so the SyntaxError of JSON.parse
\* reaches the outer catch.
SkipLineFatal == Catch("Unexpected token")

\* catch (parseError) { console.debug('Skipping non-JSON line:', line) }
SkipLine ==
    /\ NextLine
    /\ UNCHANGED <<progress, progressMessage, error, timers, handled, scheduled>>

\* if (data.type === 'progress') { setProgress(...); setProgressMessage(...) }
OnProgress(data) ==
    /\ progress' = data.progress
    /\ progressMessage' = data.message
    /\ handled' = Append(handled, data)
    /\ NextLine
    /\ UNCHANGED <<error, timers, scheduled>>

\* Mutant of OnComplete: the route is built from a field the record lacks.
OnCompleteWrongField(data) ==
    /\ progress' = 100
    /\ progressMessage' = CompleteMessage
    /\ timers' = Append(timers, HistoryRoute("undefined"))
    /\ scheduled' = Append(scheduled, HistoryRoute("undefined"))
    /\ handled' = Append(handled, data)
    /\ NextLine
    /\ UNCHANGED <<error>>

\* else if (data.type === 'complete') { ...; setTimeout(() => router.push(...), 1500) }
OnComplete(data) ==
    /\ progress' = 100
    /\ progressMessage' = CompleteMessage
    /\ timers' = Append(timers, HistoryRoute(data.diagnosisId))
    /\ scheduled' = Append(scheduled, HistoryRoute(data.diagnosisId))
    /\ handled' = Append(handled, data)
    /\ NextLine
    /\ UNCHANGED <<error>>

\* else if (data.type === 'error') { throw new Error(data.message) }:
\* thrown inside the inner try, so the inner catch receives it
OnError(data) ==
    /\ handled' = Append(handled, data)
    /\ NextLine
    /\ UNCHANGED <<progress, progressMessage, error, timers, scheduled>>

\* one iteration of `for (const line of lines)`
HandleLine ==
    /\ pc = "lines"
    /\ LET line == Head(lines)
       IN  IF IsBlank(line) THEN SkipLine
           ELSE IF ~Parses(line) THEN SkipLine
           ELSE LET data == JSONParse(line)
                IN  CASE data.type = "progress" -> OnProgress(data)
                      [] data.type = "complete" -> OnComplete(data)
                      [] data.type = "error" -> OnError(data)

\* a setTimeout callback runs: router.push(`/history/${data.diagnosisId}`)
TimerFires ==
    /\ pc # "lines"
    /\ timers # <<>>
    /\ route' = Head(timers)
    /\ timers' = Tail(timers)
    /\ UNCHANGED <<homeState, runState, dbVars, detailVars, reported>>

\* what a run does once it has started
RunStep ==
    \/ FetchRejects
    \/ FetchNotOk
    \/ FetchNoBody
    \/ ReadChunk
    \/ ReadDone
    \/ ReadRejects
    \/ HandleLine

\* The page over several runs, each with a short response body.
ClickStart == ProcessS3Video(MaxRuns)
FetchOk == Response(MaxShortRecords)

Next ==
    \/ VideoUploaded
    \/ ClickStart
    \/ FetchOk
    \/ RunStep
    \/ TimerFires

Spec == Init /\ [][Next]_vars

\* The page's first run alone, with a longer response body.
ClickStartOnce == ProcessS3Video(1)
FetchOkStream == Response(MaxRecords)

NextStream ==
    \/ VideoUploaded
    \/ ClickStartOnce
    \/ FetchOkStream
    \/ RunStep
    \/ TimerFires

SpecStream == Init /\ [][NextStream]_vars

\* The page's first run when every await settles: the fetch is answered and
\* each reader.read() delivers a chunk, the end of the stream or an error.
SpecLive == Init /\ [][NextStream]_vars /\ WF_vars(RunStep)

\* The page when the upload component may hand over any strings, the empty
\* string included.
VideoUploadedAny == Uploaded(S3Keys \cup {""}, FileNames \cup {""})

NextStart ==
    \/ Next
    \/ VideoUploadedAny

SpecStart == Init /\ [][NextStart]_vars

\* The user follows the History link of Home's header: the page is left.
\* processS3Video holds no AbortController and Home registers no cleanup, so
\* nothing is told to the run.
LeavePage ==
    /\ pc # "lines"
    /\ route = HomeRoute
    /\ route' = HistoryListRoute
    /\ UNCHANGED <<homeState, timers, runState, dbVars, detailVars, reported>>

\* The page over several runs, with the user free to leave it.
NextLeave ==
    \/ Next
    \/ LeavePage

SpecLeave == Init /\ [][NextLeave]_vars

\* ------------------------------------------------------------ upload progress
\* percentages the upload widget passes to onProgress, in any order
UploadPercents == {0, 30, 70, 100}

Max(a, b) == IF a >= b THEN a ELSE b

\* handleUploadProgress(progress): setProgress(progress)
HandleUploadProgress ==
    /\ pc # "lines"
    /\ route = HomeRoute
    /\ \E p \in UploadPercents :
          /\ progress' = p
          /\ reported' = Max(reported, p)
    /\ UNCHANGED <<s3Key, fileName, isProcessing, progressMessage, error,
                   route, timers, runState, dbVars, detailVars>>

NextUpload ==
    \/ Next
    \/ HandleUploadProgress

SpecUpload == Init /\ [][NextUpload]_vars

\* ------------------------------------------------------------ HistoryDetailPage
\* Most records in one answer of the list request.
MaxListed == 2

NotFoundMessage == "Refrigerator diagnosis not found"
FetchFailedMessage == "Failed to fetch diagnoses"

\* ids the route may carry, and ids of the stored diagnoses as the list
\* request serialises them
RouteIds == {"1", "2", "3", "4"}
ListedIds == {"1", "2", "3"}
ListedFileNames == {"leak.mp4", "noise.mp4"}

\* the answers { diagnoses: [...] } of the list request: at most MaxListed
\* records with distinct ids (id is the primary key)
DiagnosisLists ==
    {l \in UNION {[1..n -> [id : ListedIds, fileName : ListedFileNames]] :
                     n \in 0..MaxListed} :
        \A i, j \in DOMAIN l : l[i].id = l[j].id => i = j}

\* array.find(d => d.id === wanted): the first match, or undefined
RECURSIVE Find(_, _)
Find(list, wanted) ==
    IF list = <<>> THEN NoDiagnosis
    ELSE IF Head(list).id = wanted THEN Head(list)
    ELSE Find(Tail(list), wanted)

\* what HistoryDetailPage renders: skeleton, error card or the diagnosis
DetailView ==
    IF loading THEN "loading"
    ELSE IF detailError # NULL \/ diagnosis = NoDiagnosis THEN "error"
    ELSE "diagnosis"

\* the router mounts the page for /history/<id>: useState initial values
OpenDetail ==
    /\ detailPc = "unmounted"
    /\ pc = "idle"
    /\ \E i \in RouteIds :
          /\ id' = i
          /\ route' = HistoryRoute(i)
    /\ diagnosis' = NoDiagnosis
    /\ loading' = TRUE
    /\ detailError' = NULL
    /\ detailPc' = "effect"
    /\ UNCHANGED <<response, deleteVars, homeState, timers, runState,
                   reported, dbVars>>

\* useEffect runs fetchDiagnosis up to the await of fetch
FetchDiagnosis ==
    /\ detailPc = "effect"
    /\ loading' = TRUE
    /\ detailError' = NULL
    /\ detailPc' = "fetch"
    /\ UNCHANGED <<id, diagnosis, response, deleteVars, pageVars, dbVars>>

\* catch (err) { setError(err.message) } finally { setLoading(false) }
DetailCatch(msg) ==
    /\ detailError' = msg
    /\ loading' = FALSE
    /\ detailPc' = "done"
    /\ UNCHANGED <<id, diagnosis, deleteVars, pageVars, dbVars>>

\* fetch rejects
DetailFetchRejects ==
    /\ detailPc = "fetch"
    /\ response' = [kind |-> "rejected"]
    /\ DetailCatch(NetworkMessage)

\* if (!response.ok) throw new Error("Failed to fetch diagnoses")
DetailFetchNotOk ==
    /\ detailPc = "fetch"
    /\ response' = [kind |-> "not_ok"]
    /\ DetailCatch(FetchFailedMessage)

\* Mutant of DetailFetchOk: a missing record is not thrown and
\* setDiagnosis(undefined) runs.
DetailFetchOkNoThrow ==
    /\ detailPc = "fetch"
    /\ \E list \in DiagnosisLists :
          /\ response' = [kind |-> "ok", diagnoses |-> list]
          /\ diagnosis' = Find(list, id)
          /\ loading' = FALSE
          /\ detailPc' = "done"
          /\ UNCHANGED <<id, detailError, deleteVars, pageVars, dbVars>>

\* the list arrives: find, then setDiagnosis or throw "not found"
DetailFetchOk ==
    /\ detailPc = "fetch"
    /\ \E list \in DiagnosisLists :
          /\ response' = [kind |-> "ok", diagnoses |-> list]
          /\ IF Find(list, id) = NoDiagnosis
             THEN DetailCatch(NotFoundMessage)
             ELSE /\ diagnosis' = Find(list, id)
                  /\ loading' = FALSE
                  /\ detailPc' = "done"
                  /\ UNCHANGED <<id, detailError, deleteVars, pageVars, dbVars>>

\* ------------------------------------------------------------ apiRequest
\* JavaScript values of a JSON error body: t is the type, v what String() gives
JSUndefined == [t |-> "undefined", v |-> "undefined"]
JSString(str) == [t |-> "string", v |-> str]
\* a list holding one error object, as a validation error's detail
JSErrorList == [t |-> "array", v |-> "[object Object]"]

JSTruthy(x) == x.t = "array" \/ (x.t = "string" /\ x.v # "")
\* a || b
JSOr(a, b) == IF JSTruthy(a) THEN a ELSE b

Statuses == {200, 204, 404, 422, 500}
Details == {JSUndefined, JSString(""), JSString("Diagnosis not found"),
            JSErrorList}
Messages == {JSUndefined, JSString("Database unavailable")}

\* the responses fetch may resolve with: a status and a body that is either
\* no JSON or a JSON object with optional members detail and message
HttpResponses ==
    [status : Statuses,
     body : {[json |-> FALSE, detail |-> JSUndefined, message |-> JSUndefined]}
            \cup [json : {TRUE}, detail : Details, message : Messages]]

\* response.ok
Ok(status) == status \in 200..299

\* `HTTP error! status: ${response.status}`
HttpErrorMessage(status) == JSString("HTTP error! status: " \o ToString(status))

\* apiRequest once fetch has resolved with resp: return it, or throw
\* new Error(errorMessage), whose message is String(errorMessage)
apiRequest(resp) ==
    IF ~Ok(resp.status)
    THEN LET errorMessage ==
                 IF resp.body.json
                 THEN JSOr(JSOr(resp.body.detail, resp.body.message),
                           HttpErrorMessage(resp.status))
                 ELSE HttpErrorMessage(resp.status)
         IN  [kind |-> "throw", message |-> errorMessage.v]
    ELSE [kind |-> "return", response |-> resp]

\* ------------------------------------------------------------ delete
\* Mutant of DeleteButtonEnabled: the button is not disabled while deleting.
DeleteButtonAlwaysEnabled == DetailView = "diagnosis"

\* <Button onClick={handleDeleteDiagnosis} disabled={isDeleting}>, rendered
\* with the diagnosis
DeleteButtonEnabled == DetailView = "diagnosis" /\ ~isDeleting

\* handleDeleteDiagnosis up to its await of apiRequest, on a click
HandleDeleteDiagnosis ==
    /\ detailPc = "done"
    /\ route = HistoryRoute(id)
    /\ DeleteButtonEnabled
    /\ deleteSent < MaxDeletes
    /\ IF diagnosis = NoDiagnosis
       THEN UNCHANGED vars
       ELSE \E confirmDelete \in BOOLEAN :
              IF ~confirmDelete
              THEN /\ dialog' = "declined"
                   /\ UNCHANGED <<isDeleting, deletePc, deleteInflight,
                                  deleteSent, alerts, apiCall>>
              ELSE /\ dialog' = "confirmed"
                   /\ isDeleting' = TRUE
                   /\ deletePc' = "request"
                   /\ deleteInflight' = deleteInflight + 1
                   /\ deleteSent' = deleteSent + 1
                   /\ UNCHANGED <<alerts, apiCall>>
    /\ UNCHANGED <<id, diagnosis, loading, detailError, detailPc, response,
                   pageVars, dbVars>>

\* one invocation leaves handleDeleteDiagnosis: finally { setIsDeleting(false) }
DeleteReturns ==
    /\ isDeleting' = FALSE
    /\ deleteInflight' = deleteInflight - 1
    /\ deletePc' = IF deleteInflight = 1 THEN "idle" ELSE "request"
    /\ UNCHANGED <<id, diagnosis, loading, detailError, detailPc, response,
                   deleteSent, dialog, dbVars>>

\* router.push('/history')
DeleteSucceeded ==
    /\ route' = HistoryListRoute
    /\ DeleteReturns
    /\ UNCHANGED <<alerts, homeState, timers, runState, reported>>

\* Mutant of DeleteFailed: the catch block only logs.
DeleteFailedSilently ==
    /\ DeleteReturns
    /\ UNCHANGED <<alerts, pageVars>>

\* catch (err) { console.error(...); alert('Failed to delete diagnosis...') }
DeleteFailed ==
    /\ alerts' = alerts + 1
    /\ DeleteReturns
    /\ UNCHANGED pageVars

\* fetch inside apiRequest rejects: the rejection reaches the catch
DeleteRejects ==
    /\ deletePc = "request"
    /\ apiCall' = [kind |-> "rejected"]
    /\ DeleteFailed

\* fetch resolves and apiRequest returns the response or throws
DeleteSettles ==
    /\ deletePc = "request"
    /\ \E resp \in HttpResponses :
          /\ apiCall' = [kind |-> "settled", response |-> resp,
                         outcome |-> apiRequest(resp)]
          /\ IF apiRequest(resp).kind = "return"
             THEN DeleteSucceeded
             ELSE DeleteFailed

NextDetail ==
    \/ OpenDetail
    \/ FetchDiagnosis
    \/ DetailFetchRejects
    \/ DetailFetchNotOk
    \/ DetailFetchOk
    \/ HandleDeleteDiagnosis
    \/ DeleteRejects
    \/ DeleteSettles

SpecDetail == Init /\ [][NextDetail]_vars

\* ------------------------------------------------------------ read loop as a function
\* The records the body of the while loop dispatches on for one chunk's lines.
RECURSIVE EventsOf(_)
EventsOf(ls) ==
    IF ls = <<>> THEN <<>>
    ELSE (IF ~IsBlank(Head(ls)) /\ Parses(Head(ls))
          THEN <<JSONParse(Head(ls))>> ELSE <<>>) \o EventsOf(Tail(ls))

\* ------------------------------------------------------------ data model
\* supabase-schema.sql after all its statements:
\*   refrigerator_diagnoses(id SERIAL PRIMARY KEY, ...)
\*   chat_conversations(id TEXT PRIMARY KEY, diagnosis_id TEXT, ...):
\*     summary_id and its foreign key are dropped, diagnosis_id is added as a
\*     plain nullable column with no REFERENCES clause
\*   chat_messages(id TEXT PRIMARY KEY,
\*     conversation_id TEXT NOT NULL REFERENCES chat_conversations(id)
\*       ON DELETE CASCADE,
\*     role TEXT NOT NULL CHECK (role IN ('user', 'assistant')), ...)
ConversationIds == {"c1", "c2"}
MessageIds == {"m1", "m2"}
Roles == {"user", "assistant", "system"}
\* values an INSERT may give chat_messages.content: SQL NULL, '' or a text
Contents == {NULL, "", "why is it leaking?"}
\* values an INSERT may give diagnosis_result and solutions
DiagnosisTexts == {NULL, "", "Check the drain pan"}

\* the TEXT a client stores in diagnosis_id to refer to diagnosis n
DiagnosisRef(n) == ToString(n)
\* values an INSERT may give diagnosis_id: SQL NULL or any text
DiagnosisRefs == {NULL} \cup {DiagnosisRef(n) : n \in 1..MaxDiagnoses}

\* role TEXT NOT NULL CHECK (role IN ('user', 'assistant'))
RoleCheckAny(role) == TRUE

RoleCheck(role) == role \in {"user", "assistant"}

\* <column> TEXT NOT NULL: only SQL NULL is refused, '' is a value
NotNull(v) == v # NULL

Result(stmt, status) == [stmt |-> stmt, status |-> status]

\* INSERT INTO refrigerator_diagnoses (..., diagnosis_result, solutions, ...)
\* with texts from `texts`: id from the SERIAL sequence (which advances also
\* when the row is refused), NOT NULL on both texts
CreateDiagnosis(texts) ==
    /\ refrigerator_diagnoses_seq < MaxDiagnoses
    /\ refrigerator_diagnoses_seq' = refrigerator_diagnoses_seq + 1
    /\ \E r \in texts, sol \in texts :
          IF NotNull(r) /\ NotNull(sol)
          THEN /\ refrigerator_diagnoses' = refrigerator_diagnoses \cup
                     {[id |-> refrigerator_diagnoses_seq + 1,
                       diagnosis_result |-> r, solutions |-> sol]}
               /\ db_result' = Result("insert_diagnosis", "ok")
          ELSE /\ UNCHANGED refrigerator_diagnoses
               /\ db_result' = Result("insert_diagnosis", "not_null_violation")
    /\ UNCHANGED <<chat_conversations, chat_messages, now,
                   pageVars, detailVars>>

\* DELETE FROM refrigerator_diagnoses WHERE id = ...: no table references
\* refrigerator_diagnoses, so no other row is touched
DeleteDiagnosis ==
    /\ \E d \in refrigerator_diagnoses :
          refrigerator_diagnoses' = refrigerator_diagnoses \ {d}
    /\ db_result' = Result("delete_diagnosis", "ok")
    /\ UNCHANGED <<refrigerator_diagnoses_seq, chat_conversations,
                   chat_messages, now, pageVars, detailVars>>

\* INSERT INTO chat_conversations (id, diagnosis_id, ...) with diagnosis_id
\* from `refs`: primary key only; created_at and updated_at DEFAULT NOW()
CreateConversation(refs) ==
    /\ \E c \in ConversationIds, ref \in refs :
          /\ \A x \in chat_conversations : x.id # c
          /\ chat_conversations' = chat_conversations \cup
                {[id |-> c, diagnosis_id |-> ref,
                  created_at |-> now, updated_at |-> now]}
    /\ db_result' = Result("insert_conversation", "ok")
    /\ UNCHANGED <<refrigerator_diagnoses, refrigerator_diagnoses_seq,
                   chat_messages, now, pageVars, detailVars>>

\* Mutant of DeleteConversation: chat_messages.conversation_id lacks
\* ON DELETE CASCADE and the rows stay.
DeleteConversationNoCascade ==
    /\ \E c \in chat_conversations :
          chat_conversations' = chat_conversations \ {c}
    /\ db_result' = Result("delete_conversation", "ok")
    /\ UNCHANGED <<refrigerator_diagnoses, refrigerator_diagnoses_seq,
                   chat_messages, now, pageVars, detailVars>>

\* DELETE FROM chat_conversations WHERE id = ...: chat_messages rows that
\* reference it go with it (ON DELETE CASCADE)
DeleteConversation ==
    /\ \E c \in chat_conversations :
          /\ chat_conversations' = chat_conversations \ {c}
          /\ chat_messages' = {m \in chat_messages : m.conversation_id # c.id}
    /\ db_result' = Result("delete_conversation", "ok")
    /\ UNCHANGED <<refrigerator_diagnoses, refrigerator_diagnoses_seq, now,
                   pageVars, detailVars>>

\* INSERT INTO chat_messages (id, conversation_id, role, content) with values
\* from the given sets: NOT NULL and CHECK are tested on the row, then the
\* foreign key; a statement that violates one changes nothing
CreateMessage(convs, roles, contents) ==
    /\ \E m \in MessageIds, c \in convs, role \in roles, content \in contents :
          /\ \A x \in chat_messages : x.id # m
          /\ IF ~NotNull(content)
             THEN /\ UNCHANGED chat_messages
                  /\ db_result' = Result("insert_message", "not_null_violation")
             ELSE IF ~RoleCheck(role)
             THEN /\ UNCHANGED chat_messages
                  /\ db_result' = Result("insert_message", "check_violation")
             ELSE IF \A x \in chat_conversations : x.id # c
             THEN /\ UNCHANGED chat_messages
                  /\ db_result' = Result("insert_message", "foreign_key_violation")
             ELSE /\ chat_messages' = chat_messages \cup
                        {[id |-> m, conversation_id |-> c, role |-> role,
                          content |-> content, created_at |-> now]}
                  /\ db_result' = Result("insert_message", "ok")
    /\ UNCHANGED <<refrigerator_diagnoses, refrigerator_diagnoses_seq,
                   chat_conversations, now, pageVars, detailVars>>

\* The tables under every statement the schema admits, at one instant.
InsertDiagnosis == CreateDiagnosis(DiagnosisTexts)
InsertConversation == CreateConversation(DiagnosisRefs)
InsertMessage == CreateMessage(ConversationIds, Roles, Contents)

NextDB ==
    \/ InsertDiagnosis
    \/ DeleteDiagnosis
    \/ InsertConversation
    \/ DeleteConversation
    \/ InsertMessage

SpecDB == Init /\ [][NextDB]_vars

\* update_updated_at_column(): NEW.updated_at = NOW(); RETURN NEW
update_updated_at_column(row) == [row EXCEPT !.updated_at = now]

\* UPDATE chat_conversations SET title = ... WHERE id = ...: the trigger
\* update_chat_conversations_updated_at runs BEFORE UPDATE FOR EACH ROW
UpdateConversation ==
    /\ \E c \in chat_conversations :
          chat_conversations' =
              (chat_conversations \ {c}) \cup {update_updated_at_column(c)}
    /\ db_result' = Result("update_conversation", "ok")
    /\ UNCHANGED <<refrigerator_diagnoses, refrigerator_diagnoses_seq,
                   chat_messages, now, pageVars, detailVars>>

\* time passes
Tick ==
    /\ now < MaxClock
    /\ now' = now + 1
    /\ UNCHANGED <<refrigerator_diagnoses, refrigerator_diagnoses_seq,
                   chat_conversations, chat_messages, db_result,
                   pageVars, detailVars>>

\* One stored diagnosis and the chat about it, over time.
InitChat ==
    /\ InitPage
    /\ InitDetail
    /\ refrigerator_diagnoses =
          {[id |-> 1, diagnosis_result |-> "Check the drain pan",
            solutions |-> "Check the drain pan"]}
    /\ refrigerator_diagnoses_seq = 1
    /\ chat_conversations = {}
    /\ chat_messages = {}
    /\ now = 0
    /\ db_result = Result("insert_diagnosis", "ok")

InsertConversationChat == CreateConversation({DiagnosisRef(1)})
InsertMessageChat ==
    CreateMessage(ConversationIds, {"user", "assistant"}, {"why is it leaking?"})

NextChat ==
    \/ Tick
    \/ InsertConversationChat
    \/ UpdateConversation
    \/ InsertMessageChat
    \/ DeleteConversation

SpecChat == InitChat /\ [][NextChat]_vars

\* ------------------------------------------------------------ claims: helpers
\* a is b with some elements left out
RECURSIVE IsSubSeq(_, _)
IsSubSeq(a, b) ==
    IF a = <<>> THEN TRUE
    ELSE IF b = <<>> THEN FALSE
    ELSE IF Head(a) = Head(b) THEN IsSubSeq(Tail(a), Tail(b))
    ELSE IsSubSeq(a, Tail(b))

Range(f) == {f[i] : i \in DOMAIN f}

\* the routes the complete records of a sequence of records lead to
RECURSIVE RoutesOf(_)
RoutesOf(evs) ==
    IF evs = <<>> THEN <<>>
    ELSE (IF Head(evs).type = "complete"
          THEN <<HistoryRoute(Head(evs).diagnosisId)>> ELSE <<>>)
             \o RoutesOf(Tail(evs))

\* the lines of a body that end with a newline
TerminatedLines(st) == SubSeq(Split(st), 1, Len(Split(st)) - 1)

CompleteBodies == {b \in Bodies : JSONValue(b).type = "complete"}

\* a complete or error record has been dispatched on in this run
TerminalHandled == \E i \in DOMAIN handled : handled[i].type \in {"complete", "error"}

\* the for loop is at a non-blank line that JSON.parse rejects
AtUnparseableLine ==
    pc = "lines" /\ ~IsBlank(Head(lines)) /\ ~Parses(Head(lines))

\* ------------------------------------------------------------ claims
\* C1: when the body has been read to its end, the records the loop acted on
\* are those it acts on when the whole body arrives as one chunk, whatever the
\* chunk boundaries were.
C1_ChunkingIndependent ==
    exit = "break" => handled = EventsOf(Split(stream))

\* C2: while a run is in progress the displayed percent never decreases.
C2_ProgressNeverDecreases ==
    [][(isProcessing /\ isProcessing') => progress' >= progress]_vars

\* C3: handling an error record ends the run in Failed with the record's
\* message as the user-visible error.
C3_ErrorEventFailsRun ==
    [][(/\ pc = "lines"
        /\ Len(handled') = Len(handled) + 1
        /\ handled'[Len(handled')].type = "error")
       => (/\ pc' = "idle"
           /\ ~isProcessing'
           /\ error' = handled'[Len(handled')].message)]_vars

\* C4: once a complete or error record has been handled, the later lines of
\* the stream change neither progress, progressMessage nor error and schedule
\* no navigation.
C4_TerminalEventWins ==
    [][(pc = "lines" /\ TerminalHandled)
       => UNCHANGED <<progress, progressMessage, error, timers, scheduled>>]_vars

\* C5: a step that deletes a diagnosis leaves no conversation that refers to
\* it and no message of such a conversation.
C5_DeleteDiagnosisCascades ==
    [][\A d \in refrigerator_diagnoses \ refrigerator_diagnoses' :
          /\ \A c \in chat_conversations' : c.diagnosis_id # DiagnosisRef(d.id)
          /\ \A c \in chat_conversations : c.diagnosis_id = DiagnosisRef(d.id)
                => \A m \in chat_messages' : m.conversation_id # c.id]_vars

\* C6: a run that ends at the fetch (rejected, non-success status, or no
\* body) ends with a non-null transport-failure error, isProcessing false, no
\* record handled and no navigation scheduled.
C6_PreStreamFailure ==
    [][(pc = "fetch" /\ pc' # "read" /\ pc' # "fetch")
       => (/\ pc' = "idle"
           /\ error' # NULL
           /\ error' \in {NetworkMessage, NotOkMessage, NoReaderMessage}
           /\ ~isProcessing'
           /\ handled' = <<>>
           /\ scheduled' = <<>>
           /\ timers' = timers
           /\ route' = route)]_vars

C6_Witness ==
    /\ pc = "idle"
    /\ exit = "catch"
    /\ stream = <<>>
    /\ error = NotOkMessage
    /\ ~isProcessing

\* C7: a line JSON.parse rejects is skipped: the step changes neither error,
\* progress, progressMessage nor anything else the run shows, the loop goes
\* on, and the remaining lines of the chunk and the rest of the body are
\* still to be handled.
C7_UnparseableLineSkipped ==
    [][AtUnparseableLine
       => (/\ UNCHANGED <<progress, progressMessage, error, isProcessing,
                          timers, route, handled, scheduled, exit, inflight,
                          stream, pos>>
           /\ lines' = Tail(lines)
           /\ pc' = IF Tail(lines) = <<>> THEN "read" ELSE "lines")]_vars

C7_Witness ==
    /\ exit = "break"
    /\ stream = <<"x", NL, "{", "p20", "}", NL>>
    /\ handled = <<JSONValue("p20")>>
    /\ progress = 20
    /\ error = NULL

\* C8: the navigations a run schedules are exactly those of the complete
\* records it handled, in order, each to /history/<diagnosisId> of its record;
\* the route only ever changes to a scheduled one; and a run whose body holds
\* no complete record handles none and schedules nothing.
C8_NavigationOnlyOnComplete ==
    /\ scheduled = RoutesOf(handled)
    /\ IsSubSeq(timers, scheduled)
    /\ route # HomeRoute => route \in Range(scheduled)
    /\ (\A i \in DOMAIN stream : stream[i] \notin CompleteBodies)
          => (/\ scheduled = <<>>
              /\ timers = <<>>
              /\ route = HomeRoute
              /\ \A i \in DOMAIN handled : handled[i].type # "complete")

C8_Witness ==
    /\ handled = <<JSONValue("p60"), JSONValue("cd2")>>
    /\ scheduled = <<"/history/d2">>
    /\ route = "/history/d2"
    /\ progress = 100
    /\ progressMessage = CompleteMessage

\* C9: text after the last newline of the body is never parsed: every record
\* the loop acted on comes from a line that ends with a newline.
C9_ResidualDiscarded ==
    IsSubSeq(handled, EventsOf(TerminatedLines(stream)))

\* C11: once the user has left the page during a run in which no complete
\* record has been handled, no later record of the stream is acted on and no
\* navigation is scheduled.
C11_AbortStopsRun ==
    [][(/\ route = HistoryListRoute
        /\ pc = "lines"
        /\ \A i \in DOMAIN handled : handled[i].type # "complete")
       => (handled' = handled /\ scheduled' = scheduled /\ timers' = timers)]_vars

\* C12: a request is sent only by a click on the rendered button of the idle
\* page, one per click; and a run that ends leaves s3Key and fileName in
\* place, so that after a failure the button is there for a retry.
C12_NoAutomaticRetry ==
    [][/\ runs' # runs
          => (/\ pc = "idle"
              /\ ~isProcessing
              /\ s3Key # NULL
              /\ route = HomeRoute
              /\ runs' = runs + 1
              /\ pc' = "fetch")
       /\ (pc # "idle" /\ pc' = "idle")
          => (/\ s3Key' = s3Key /\ s3Key' # NULL
              /\ fileName' = fileName /\ fileName' # NULL
              /\ runs' = runs
              /\ ~isProcessing')]_vars

\* a run has failed and the page offers the retry
C12_Witness ==
    /\ runs = 1
    /\ pc = "idle"
    /\ exit = "catch"
    /\ error = NotOkMessage
    /\ route = HomeRoute
    /\ ButtonRendered
    /\ fileName # NULL

\* C10: at most one invocation of processS3Video is in flight, and while one
\* is, the button that starts another is not rendered.
C10_SingleRun ==
    /\ inflight <= 1
    /\ inflight = 1 => ~ButtonRendered
    /\ inflight = 1 <=> pc # "idle"

C10_Witness ==
    /\ runs = 2
    /\ inflight = 1
    /\ pc = "read"
    /\ s3Key # NULL
    /\ exit = "none"


\* C13: every row of chat_conversations carries a non-null diagnosis_id that
\* refers to an existing row of refrigerator_diagnoses, so a conversation can
\* only be created for a diagnosis that exists.
C13_ConversationHasDiagnosis ==
    \A c \in chat_conversations :
        /\ c.diagnosis_id # NULL
        /\ \E d \in refrigerator_diagnoses : DiagnosisRef(d.id) = c.diagnosis_id

\* C14: deleting a conversation removes exactly that conversation and the
\* messages that refer to it, in one step, and leaves the diagnoses, the other
\* conversations and their messages as they were; no message is ever left
\* without its conversation.
C14_DeleteConversationCascades ==
    [][/\ \A m \in chat_messages' :
              \E c \in chat_conversations' : c.id = m.conversation_id
       /\ db_result'.stmt = "delete_conversation"
             => \E c \in chat_conversations :
                   /\ chat_conversations' = chat_conversations \ {c}
                   /\ chat_messages' =
                         {m \in chat_messages : m.conversation_id # c.id}
                   /\ refrigerator_diagnoses' = refrigerator_diagnoses]_vars

\* a conversation with a message was deleted; another conversation and its
\* message are still there
C14_Witness ==
    /\ db_result.stmt = "delete_conversation"
    /\ Cardinality(chat_conversations) = 1
    /\ Cardinality(chat_messages) = 1
    /\ \E m \in MessageIds : \A x \in chat_messages : x.id # m
    /\ refrigerator_diagnoses # {}

\* C15: every stored message has role "user" or "assistant"; an insert with
\* another role is refused and leaves chat_messages unchanged.
C15_RoleRestricted ==
    [][/\ \A m \in chat_messages' : m.role = "user" \/ m.role = "assistant"
       /\ db_result'.status = "check_violation"
             => chat_messages' = chat_messages]_vars

\* an insert with role "system" into an existing conversation was refused
C15_Witness ==
    /\ db_result = Result("insert_message", "check_violation")
    /\ chat_conversations # {}
    /\ \E m \in chat_messages : m.role = "user"

\* C16: every stored diagnosis has a non-empty diagnosis_result and a
\* non-empty solutions text.
C16_DiagnosisTextsNonEmpty ==
    \A d \in refrigerator_diagnoses :
        d.diagnosis_result # "" /\ d.solutions # ""

\* C17: every stored message has non-empty content.
C17_ContentNonEmpty ==
    \A m \in chat_messages : m.content # ""

\* C18: the conversation a message belongs to has updated_at no earlier than
\* the message's created_at.
C18_MessageRefreshesConversation ==
    \A m \in chat_messages :
        \A c \in chat_conversations :
            c.id = m.conversation_id => c.updated_at >= m.created_at

\* the upload widget's callback ran: only progress (and its history) changed
UploadProgressStep ==
    /\ progress' # progress \/ reported' # reported
    /\ UNCHANGED <<s3Key, fileName, isProcessing, progressMessage, error,
                   route, timers, runState>>

\* C19: the upload percentage stays within [0,100] and a call of onProgress
\* never leaves it below a value reported earlier for the same upload.
C19_UploadProgressMonotone ==
    [][UploadProgressStep
         => progress' \in 0..100 /\ progress' >= reported']_vars

\* C20: when fetchDiagnosis has finished, loading is false; if the answer
\* holds a record whose id is the route id the page shows that record and
\* error is null; otherwise (no such record, or the request failed) the page
\* shows the error card with the not-found or failure message.
C20_DetailLookup ==
    detailPc = "done" =>
        /\ ~loading
        /\ IF /\ response.kind = "ok"
              /\ \E i \in DOMAIN response.diagnoses :
                    response.diagnoses[i].id = id
           THEN /\ \E i \in DOMAIN response.diagnoses :
                     /\ response.diagnoses[i].id = id
                     /\ diagnosis = response.diagnoses[i]
                /\ detailError = NULL
                /\ DetailView = "diagnosis"
           ELSE /\ detailError \in
                     {NotFoundMessage, FetchFailedMessage, NetworkMessage}
                /\ (response.kind = "ok") = (detailError = NotFoundMessage)
                /\ DetailView = "error"

\* the wanted record was the second of two in the answer
C20_Witness ==
    /\ detailPc = "done"
    /\ response.kind = "ok"
    /\ Len(response.diagnoses) = 2
    /\ response.diagnoses[2].id = id
    /\ diagnosis = response.diagnoses[2]
    /\ DetailView = "diagnosis"

\* C21: when a delete request ends, isDeleting is false and the diagnosis is
\* as it was; if the DELETE got a success status the page navigates to
\* /history, and if it failed (rejected fetch or non-success status) the route
\* stays, the diagnosis is still displayed and the user is alerted.
C21_DeleteOutcome ==
    [][deleteInflight' < deleteInflight
         => /\ ~isDeleting'
            /\ diagnosis' = diagnosis
            /\ IF apiCall'.kind = "settled" /\ apiCall'.response.status \in 200..299
               THEN route' = HistoryListRoute /\ alerts' = alerts
               ELSE /\ route' = route
                    /\ alerts' = alerts + 1
                    /\ DetailView' = "diagnosis"]_vars

\* a DELETE answered 404 ended: alerted, still on the page, button enabled
C21_Witness ==
    /\ apiCall.kind = "settled"
    /\ apiCall.response.status = 404
    /\ deleteSent = 1
    /\ deleteInflight = 0
    /\ alerts = 1
    /\ ~isDeleting
    /\ route = HistoryRoute(id)
    /\ DetailView = "diagnosis"

\* C26: a DELETE request is sent only for a loaded diagnosis after the user
\* confirmed the dialog; a declined dialog sends nothing and changes neither
\* isDeleting, the diagnosis nor the route; at most one DELETE request is in
\* flight at any time.
C26_DeleteGuarded ==
    [][/\ deleteSent' # deleteSent
             => /\ diagnosis # NoDiagnosis
                /\ dialog' = "confirmed"
                /\ deleteInflight = 0
                /\ deleteSent' = deleteSent + 1
                /\ isDeleting'
       /\ (dialog' = "declined" /\ dialog # "declined")
             => UNCHANGED <<isDeleting, diagnosis, route, deleteSent,
                            deleteInflight, deletePc>>
       /\ deleteInflight' <= 1]_vars

\* one confirmed request was sent and failed; the next dialog was declined
C26_Witness ==
    /\ dialog = "declined"
    /\ deleteSent = 1
    /\ deleteInflight = 0
    /\ alerts = 1
    /\ ~isDeleting
    /\ diagnosis # NoDiagnosis

\* a member of the error body that is there and not the empty string
Present(x) == x.t # "undefined" /\ x # JSString("")

\* C28: apiRequest returns the response exactly when the status is a success
\* status; otherwise it throws an Error whose message is the body's detail if
\* present, else the body's message if present, else "HTTP error! status:
\* <code>", the last also when the body is not JSON.
C28_ApiRequestContract ==
    apiCall.kind = "settled" =>
        LET resp == apiCall.response
            out == apiCall.outcome
        IN  /\ (out.kind = "return") = (resp.status \in 200..299)
            /\ out.kind = "return" => out.response = resp
            /\ out.kind = "throw" =>
                  JSString(out.message) =
                      IF resp.body.json /\ Present(resp.body.detail)
                      THEN resp.body.detail
                      ELSE IF resp.body.json /\ Present(resp.body.message)
                      THEN resp.body.message
                      ELSE HttpErrorMessage(resp.status)

\* C24: the displayed progress is an integer in 0..100 in every state, whatever
\* records the stream delivers.
C24_ProgressInRange == progress \in 0..100

\* C27: an invocation of processS3Video while s3Key or fileName is unset sends
\* no request and leaves isProcessing, progress, progressMessage and error as
\* they were; a request is sent only when handleVideoUploaded has recorded
\* both values, and its body carries exactly these two.
C27_StartNeedsUpload ==
    [][/\ (calls' # calls /\ (~Truthy(s3Key) \/ ~Truthy(fileName)))
             => UNCHANGED <<isProcessing, progress, progressMessage, error,
                            runs, requestBody, pc, inflight>>
       /\ runs' # runs
             => /\ Truthy(s3Key) /\ Truthy(fileName)
                /\ s3Key \in S3Keys /\ fileName \in FileNames
                /\ requestBody' = [s3Key |-> s3Key, fileName |-> fileName]]_vars

\* an invocation without a file name returned at once; after a further upload
\* the next one sent the request
C27_Witness ==
    /\ calls = 2
    /\ runs = 1
    /\ pc = "fetch"
    /\ requestBody = [s3Key |-> s3Key, fileName |-> fileName]
    /\ Truthy(fileName)

\* C22: isProcessing is true exactly while an invocation of processS3Video
\* has not returned, and every started run eventually returns with
\* isProcessing = false.
C22_RunTerminates ==
    /\ [](isProcessing <=> pc # "idle")
    /\ isProcessing ~> (~isProcessing /\ pc = "idle")

\* a run that handled two records has returned through the break
C22_Witness ==
    /\ runs = 1
    /\ pc = "idle"
    /\ ~isProcessing
    /\ exit = "break"
    /\ Len(handled) = 2

\* C23: when the stream has ended and the run handled no complete and no error
\* record, isProcessing is false, error is null, no navigation is scheduled,
\* and progress and progressMessage are those of the last progress record, or
\* 0 and "Initializing analysis..." if there was none.
C23_StreamEndsQuietly ==
    (/\ pc = "idle"
     /\ exit = "break"
     /\ \A i \in DOMAIN handled : handled[i].type = "progress")
    => /\ ~isProcessing
       /\ error = NULL
       /\ scheduled = <<>>
       /\ timers = <<>>
       /\ IF handled = <<>>
          THEN progress = 0 /\ progressMessage = InitMessage
          ELSE /\ progress = handled[Len(handled)].progress
               /\ progressMessage = handled[Len(handled)].message

\* the stream held two progress records and ended
C23_Witness ==
    /\ pc = "idle"
    /\ exit = "break"
    /\ Len(handled) = 2
    /\ handled[1].progress = 60
    /\ handled[2].progress = 20
    /\ progress = 20
    /\ progressMessage = "Analyzing"
    /\ error = NULL

\* C25: a run that leaves through the outer catch has progress 0, an empty
\* progressMessage, error set to the failure message, and s3Key and fileName
\* as before; a run that starts has error null and progress 0 when its
\* request is sent.
C25_CatchResets ==
    [][/\ (pc # "idle" /\ pc' = "idle" /\ exit' = "catch")
             => /\ progress' = 0
                /\ progressMessage' = ""
                /\ error' \in {NetworkMessage, NotOkMessage, NoReaderMessage}
                /\ s3Key' = s3Key
                /\ fileName' = fileName
       /\ runs' # runs
             => /\ inflight = 0
                /\ error' = NULL
                /\ progress' = 0]_vars

\* a run that had shown a progress record failed on the next read
C25_Witness ==
    /\ pc = "idle"
    /\ exit = "catch"
    /\ error = NetworkMessage
    /\ handled # <<>>
    /\ handled[1].type = "progress"
    /\ progress = 0
    /\ progressMessage = ""
    /\ Truthy(s3Key)
    /\ Truthy(fileName)

====
